---------------------------- MODULE Spec2Model ----------------------------
(***************************************************************************)
(* A model of Morpheus' AppShield source stage and of the PreallocatorMixin *)
(* it is built on:                                                          *)
(*   - PreallocatorMixin._preallocate_df (column completion of a frame),    *)
(*   - PreallocatorMixin._post_build_single and the override in             *)
(*     AppShieldSourceStage (the nodes and edges added at build time),      *)
(*   - AppShieldSourceStage.files_to_dfs and the static methods it calls    *)
(*     (load_df, read_file_to_df, fill_interested_cols, load_meta_cols,     *)
(*     batch_source_split).                                                 *)
(* Python strings the code takes apart (paths, encoding names) are tuples   *)
(* of one-character strings; column names and cell values are atoms.        *)
(***************************************************************************)
EXTENDS Integers, Sequences, FiniteSets, TLC

VARIABLES
    \* --- PreallocatorMixin, run time
    needed_columns,  \* self._needed_columns: an ordered mapping, as a tuple of <<name, TypeId>>
    df,              \* the frame travelling through the preallocation node
    df_in,           \* the frame as it arrived at the node
    df_once,         \* the frame after the first _preallocate_df
    calls,           \* number of _preallocate_df applications so far
    msg,             \* the message at the preallocation node: [cls], or None for a bare frame
    msg_pc,          \* where _preallocate_multi / _preallocate_meta stands ("none": not called)
    held,            \* whether mutable access to the message's frame is held
    \* --- graph build (_post_build_single)
    stage,           \* the stage being built: [cls, unique_name, out_type]
    use_cpp,         \* CppConfig.get_should_use_cpp()
    builder,         \* the mrc.Builder: [nodes, edges] in creation order
    build_pc,        \* "config", "built" (the stage's own node exists), "done", "failed"
    call,            \* PreallocatorMixin._post_build_single as it was entered: [builder, out_node]
    returned,        \* the node _post_build_single returned, or None
    raised,          \* the exception that left _post_build_single, or None
    \* --- AppShieldSourceStage
    _plugins_include,  \* self._plugins_include
    _cols_include,     \* self._cols_include
    _cols_exclude,     \* self._cols_exclude
    _encoding,         \* self._encoding
    batch,             \* the list of files handed to files_to_dfs (None before)
    out                \* what files_to_dfs did with it (None before)

preVars == <<df, df_in, df_once, calls, msg, msg_pc, held>>
buildVars == <<stage, use_cpp, builder, build_pc, call, returned, raised>>
configVars == <<_plugins_include, _cols_include, _cols_exclude, _encoding>>
ingestVars == <<configVars, batch, out>>
vars == <<needed_columns, preVars, buildVars, ingestVars>>

None == [none |-> TRUE]

\* ------------------------------------------------------------------ bounds
MaxRows == 1
MaxCalls == 2
MaxBatch == 3

\* ------------------------------------------------------------- tuple helpers
Range(s) == {s[i] : i \in DOMAIN s}


\* All duplicate-free tuples over the finite set S.
RECURSIVE Perms(_)
Perms(S) ==
    IF S = {} THEN {<<>>}
    ELSE UNION {{<<x>> \o p : p \in Perms(S \ {x})} : x \in S}

Arrangements(S) == UNION {Perms(T) : T \in SUBSET S}

\* ==================================================================== strings
\* A Python str the code takes apart is a tuple of one-character strings.
UpperCase == <<"A", "B", "C", "D", "E", "F", "G", "H", "I", "J", "K", "L", "M",
               "N", "O", "P", "Q", "R", "S", "T", "U", "V", "W", "X", "Y", "Z">>
LowerCase == <<"a", "b", "c", "d", "e", "f", "g", "h", "i", "j", "k", "l", "m",
               "n", "o", "p", "q", "r", "s", "t", "u", "v", "w", "x", "y", "z">>
DigitChars == <<"0", "1", "2", "3", "4", "5", "6", "7", "8", "9">>

\* The str as one atom (for cell values, dict keys, log entries).
RECURSIVE Join(_)
Join(s) == IF s = <<>> THEN "" ELSE Head(s) \o Join(Tail(s))

\* str.lower()
lower(s) ==
    [i \in DOMAIN s |->
        IF \E k \in DOMAIN UpperCase : UpperCase[k] = s[i]
        THEN LowerCase[CHOOSE k \in DOMAIN UpperCase : UpperCase[k] = s[i]]
        ELSE s[i]]

\* str.startswith(prefix)
startswith(s, prefix) ==
    Len(s) >= Len(prefix) /\ SubSeq(s, 1, Len(prefix)) = prefix

\* str.split(sep) for a one-character sep: at least one piece, empty pieces kept.
RECURSIVE split(_, _)
split(s, sep) ==
    IF \E i \in DOMAIN s : s[i] = sep
    THEN LET i == CHOOSE k \in DOMAIN s : s[k] = sep /\ \A m \in 1..(k - 1) : s[m] # sep
         IN  <<SubSeq(s, 1, i - 1)>> \o split(SubSeq(s, i + 1, Len(s)), sep)
    ELSE <<s>>

IsDigits(s) == s # <<>> /\ \A i \in DOMAIN s : s[i] \in Range(DigitChars)

DigitValue(c) == (CHOOSE k \in DOMAIN DigitChars : DigitChars[k] = c) - 1

\* A faulty variant: only the last digit counts.
int_last_digit(s) == DigitValue(s[Len(s)])

\* int(s) for a str of decimal digits; any other str in the model (no sign,
\* blank or underscore occurs in it) is a ValueError.
RECURSIVE int(_)
int(s) ==
    IF Len(s) = 1 THEN DigitValue(s[1])
    ELSE 10 * int(SubSeq(s, 1, Len(s) - 1)) + DigitValue(s[Len(s)])

\* re.search('[a-z]+_([0-9-_.]+).json', s): a match is <<i, j, k>>, where the
\* lower-case run starts at i, the '_' stands at j, the group runs to k, one
\* more character follows, then "json".
TsClass == Range(DigitChars) \cup {"-", "_", "."}

\* The places <<i, j, k>> at which the pattern fits.
TsMatches(s) ==
    UNION {{<<i, j, k>> :
                i \in {a \in 1..(j - 1) : \A m \in a..(j - 1) : s[m] \in Range(LowerCase)},
                k \in {b \in (j + 1)..(Len(s) - 5) :
                          /\ \A m \in (j + 1)..b : s[m] \in TsClass
                          /\ s[b + 1] # "\n"
                          /\ SubSeq(s, b + 2, b + 5) = <<"j", "s", "o", "n">>}} :
           j \in {u \in DOMAIN s : s[u] = "_"}}

\* The match re.search reports: leftmost start, then the longest group
\* (the quantifiers are greedy).  Its group(1), or None for no match.
ts_re(s) ==
    LET found == TsMatches(s)
    IN  IF found = {} THEN None
        ELSE LET i == CHOOSE a \in {m[1] : m \in found} : \A b \in {m[1] : m \in found} : a <= b
                 at == {m \in found : m[1] = i}
                 m == CHOOSE a \in at : \A b \in at : a[3] >= b[3]
             IN  [group1 |-> SubSeq(s, m[2] + 1, m[3])]

\* ===================================================================== frames
\* A frame is [lib, nrows, cols]: cols is the tuple of its columns in column
\* order, each [name, dtype, data] with Len(data) = nrows.
ColNames == {"node_id", "prediction", "name"}
TypeIds == {"INT64", "FLOAT32", "STRING"}
Libs == {"pandas", "cudf"}

Columns(frame) == [i \in DOMAIN frame.cols |-> frame.cols[i].name]

\* A faulty variant: membership is tested against the first column only.
HasColumnFirstOnly(frame, name) ==
    frame.cols # <<>> /\ frame.cols[1].name = name

\* col in df.columns
HasColumn(frame, name) == \E i \in DOMAIN frame.cols : frame.cols[i].name = name

ColumnOf(frame, name) ==
    frame.cols[CHOOSE i \in DOMAIN frame.cols : frame.cols[i].name = name]

\* df[name] = column: replaces the column of that name where it stands, or
\* appends a new last column.
SetItem(frame, name, dtype, data) ==
    LET col == [name |-> name, dtype |-> dtype, data |-> data]
    IN  IF HasColumn(frame, name)
        THEN [frame EXCEPT !.cols =
                [i \in DOMAIN frame.cols |->
                    IF frame.cols[i].name = name THEN col ELSE frame.cols[i]]]
        ELSE [frame EXCEPT !.cols = Append(frame.cols, col)]

\* morpheus.common.typeid_to_numpy_str
typeid_to_numpy_str(column_type) ==
    CASE column_type = "INT64" -> "int64"
      [] column_type = "FLOAT32" -> "float32"

\* cp.zeros / np.zeros (num_rows, dtype): num_rows zeros
alloc_func(lib, num_rows) == [i \in 1..num_rows |-> 0]

\* A scalar assigned to a column is broadcast to every row.
Broadcast(num_rows, value) == [i \in 1..num_rows |-> value]

\* The lookup self._needed_columns[column_name]
NeededType(S, column_name) ==
    S[CHOOSE i \in DOMAIN S : S[i][1] = column_name][2]

NeededKeys(S) == [i \in DOMAIN S |-> S[i][1]]

\* A faulty variant: every needed column counts as missing.
missing_columns_all(S, frame) == NeededKeys(S)

\* [col for col in self._needed_columns.keys() if col not in df.columns]
missing_columns(S, frame) ==
    SelectSeq(NeededKeys(S), LAMBDA col : ~HasColumn(frame, col))

\* The loop body of _preallocate_df for one missing column.
PreallocateColumn(S, frame, column_name) ==
    LET column_type == NeededType(S, column_name)
    IN  IF column_type # "STRING"
        THEN SetItem(frame, column_name, typeid_to_numpy_str(column_type),
                     alloc_func(frame.lib, frame.nrows))
        ELSE SetItem(frame, column_name, "object", Broadcast(frame.nrows, ""))

RECURSIVE PreallocateAll(_, _, _)
PreallocateAll(S, frame, todo) ==
    IF todo = <<>> THEN frame
    ELSE PreallocateAll(S, PreallocateColumn(S, frame, Head(todo)), Tail(todo))

\* PreallocatorMixin._preallocate_df
_preallocate_df(S, frame) ==
    LET missing == missing_columns(S, frame)
    IN  IF Len(missing) > 0 THEN PreallocateAll(S, frame, missing) ELSE frame

\* ------------------------------------------------ the frames and specs drawn
\* An arriving column holds values that are not the fill values.
ArrivingData(dtype, num_rows) ==
    [i \in 1..num_rows |-> IF dtype = "object" THEN "x" ELSE i]

ArrivingDtypes == {"int64", "object"}

Frames ==
    {[lib |-> lib, nrows |-> n,
      cols |-> [i \in DOMAIN names |->
                  [name |-> names[i], dtype |-> dt[i], data |-> ArrivingData(dt[i], n)]]] :
        lib \in Libs, n \in 0..MaxRows,
        <<names, dt>> \in {<<ns, d>> \in Arrangements(ColNames) \X UNION {[1..k -> ArrivingDtypes] : k \in 0..Cardinality(ColNames)} :
                                Len(ns) = Len(d)}}

ColumnSpecs ==
    {[i \in DOMAIN names |-> <<names[i], ty[i]>>] :
        <<names, ty>> \in {<<ns, t>> \in Arrangements(ColNames) \X UNION {[1..k -> TypeIds] : k \in 0..Cardinality(ColNames)} :
                                Len(ns) = Len(t)}}

\* ================================================================= ingestion
\* A cell that holds None / NaN (no JSON value of the model is this string).
Null == "<null>"

OK(frame) == [raised |-> None, df |-> frame]
Raise(type) == [raised |-> [type |-> type], df |-> None]

MaxOf(S) == CHOOSE a \in S : \A b \in S : a >= b

\* A value bound to a local name: Then(v) with v computed once.
With(v, Then(_)) == Then(v)

\* pd.DataFrame(columns=columns, data=data) for a list of row lists: short
\* rows are padded with NaN to the longest row, and a column count other than
\* that width is a ValueError; no rows give an empty frame.
DataFrame(columns, data) ==
    IF data = <<>>
    THEN OK([lib |-> "pandas", nrows |-> 0,
             cols |-> [j \in DOMAIN columns |->
                         [name |-> columns[j], dtype |-> "object", data |-> <<>>]]])
    ELSE LET width == MaxOf({Len(data[i]) : i \in DOMAIN data})
         IN  IF width # Len(columns)
             THEN Raise("ValueError")
             ELSE OK([lib |-> "pandas", nrows |-> Len(data),
                      cols |-> [j \in DOMAIN columns |->
                                  [name |-> columns[j], dtype |-> "object",
                                   data |-> [i \in DOMAIN data |->
                                               IF j <= Len(data[i]) THEN data[i][j] ELSE Null]]]])

\* plugin_df.drop(columns=...): the columns not named stay, in their order
drop(frame, names) ==
    [frame EXCEPT !.cols = SelectSeq(frame.cols, LAMBDA c : c.name \notin names)]

\* plugin_df[cols]: the named columns in the order named
select(frame, names) ==
    [frame EXCEPT !.cols = [i \in DOMAIN names |-> ColumnOf(frame, names[i])]]

\* The rows of a frame, each the tuple of its cells in column order.
Rows(frame) ==
    [i \in 1..frame.nrows |-> [j \in DOMAIN frame.cols |-> frame.cols[j].data[i]]]

\* ------------------------------------------------------------------- files
\* A file is [path, written_as, doc]: the codec its bytes were written with
\* and the JSON document written.  A document is malformed JSON, or an object
\* with the keys it has.
Codecs == {"latin_1", "utf_8", "utf_16", "cp037", "ascii"}

\* Reading bytes written with one codec through another: ASCII bytes read the
\* same as ascii, latin-1 and utf-8 and turn to other characters as utf-16
\* or cp037; utf-16 bytes (with their BOM) are no valid utf-8 or ascii, and
\* latin-1 and cp037 give every byte some character.
decode(written_as, codec) ==
    CASE written_as = "ascii" /\ codec \in {"ascii", "latin_1", "utf_8"} -> "text"
      [] written_as = "ascii" /\ codec \in {"utf_16", "cp037"} -> "garbled"
      [] written_as = "utf_16" /\ codec = "utf_16" -> "text"
      [] written_as = "utf_16" /\ codec \in {"utf_8", "ascii"} -> "UnicodeDecodeError"
      [] written_as = "utf_16" /\ codec \in {"latin_1", "cp037"} -> "garbled"

\* open(filepath, encoding=encoding): the codec registered under the name
\* (names are looked up in lower case, with '-' for '_', through the aliases).
codec_of(encoding) ==
    LET n == Join([i \in DOMAIN encoding |->
                     IF encoding[i] = "-" THEN "_" ELSE lower(encoding)[i]])
    IN  CASE n = "latin1" -> "latin_1"
          [] n = "utf_8" -> "utf_8"
          [] n = "utf_16" -> "utf_16"
          [] n = "cp037" -> "cp037"
          [] n = "ascii" -> "ascii"

\* json.load(file): the document, or the exception raised
json_load(file, codec) ==
    LET text == decode(file.written_as, codec)
    IN  IF text = "UnicodeDecodeError" THEN [raised |-> [type |-> "UnicodeDecodeError"], data |-> None]
        ELSE IF text = "garbled" \/ file.doc.malformed
        THEN [raised |-> [type |-> "JSONDecodeError"], data |-> None]
        ELSE [raised |-> None, data |-> file.doc]

\* AppShieldSourceStage.read_file_to_df, on the file opened with a codec
read_file_to_df(file, codec, cols_exclude) ==
    LET loaded == json_load(file, codec)
        data == loaded.data
    IN  IF loaded.raised # None THEN [raised |-> loaded.raised, df |-> None]
        ELSE IF "titles" \notin data.keys THEN Raise("KeyError")
        ELSE LET titles == data.titles
                 features_plugin == SelectSeq(titles, LAMBDA col : col \notin Range(cols_exclude))
             IN  IF "data" \notin data.keys THEN Raise("KeyError")
                 ELSE LET partial == DataFrame(features_plugin, data.data)
                      IN  IF partial.raised = None THEN partial
                          ELSE LET whole == DataFrame(titles, data.data)
                               IN  IF whole.raised # None THEN whole
                                   ELSE OK(drop(whole.df, Range(titles) \ Range(features_plugin)))

\* A faulty variant: any utf-8 spelling counts as "utf", nothing else.
is_utf_only8(encoding) == codec_of(encoding) = "utf_8"

\* encoding.lower().startswith('utf')
is_utf(encoding) == startswith(lower(encoding), <<"u", "t", "f">>)

Utf8 == <<"u", "t", "f", "-", "8">>

\* AppShieldSourceStage.load_df: the frame or the exception, with the
\* encodings the file was opened with, in order, what each read_file_to_df
\* gave (second is None when there was none) and what was logged.
load_df(file, cols_exclude, encoding) ==
    With(read_file_to_df(file, codec_of(encoding), cols_exclude), LAMBDA first :
    With([level |-> "error", what |-> "Unable to load", filepath |-> Join(file.path)], LAMBDA error :
    With([level |-> "info", what |-> "Retrying", filepath |-> Join(file.path)], LAMBDA info :
    With([raised |-> first.raised, df |-> first.df, reads |-> <<Join(encoding)>>,
          first |-> first, second |-> None, log |-> <<>>], LAMBDA once :
        IF first.raised = None \/ first.raised.type # "JSONDecodeError"
        THEN once
        ELSE IF is_utf(encoding)
        THEN [once EXCEPT !.log = <<error>>]
        ELSE With(read_file_to_df(file, codec_of(Utf8), cols_exclude), LAMBDA second :
                  [raised |-> second.raised, df |-> second.df,
                   reads |-> Append(once.reads, Join(Utf8)),
                   first |-> first, second |-> second, log |-> <<error, info>>])))))

\* AppShieldSourceStage.fill_interested_cols
RECURSIVE fill_missing(_, _, _)
fill_missing(frame, cols_exists, todo) ==
    IF todo = <<>> THEN frame
    ELSE fill_missing(IF Head(todo) \notin cols_exists
                      THEN SetItem(frame, Head(todo), "object", Broadcast(frame.nrows, Null))
                      ELSE frame,
                      cols_exists, Tail(todo))

fill_interested_cols(plugin_df, cols_include) ==
    select(fill_missing(plugin_df, Range(Columns(plugin_df)), cols_include), cols_include)

\* A faulty variant: the metadata columns are appended in another order.
meta_columns_swapped(frame, snapshot_id, timestamp, source, plugin) ==
    SetItem(SetItem(SetItem(SetItem(frame,
        "snapshot_id", "int64", Broadcast(frame.nrows, snapshot_id)),
        "source", "object", Broadcast(frame.nrows, source)),
        "timestamp", "object", Broadcast(frame.nrows, timestamp)),
        "plugin", "object", Broadcast(frame.nrows, plugin))

\* Lines 262-265 of load_meta_cols: the four scalar assignments
meta_columns(frame, snapshot_id, timestamp, source, plugin) ==
    SetItem(SetItem(SetItem(SetItem(frame,
        "snapshot_id", "int64", Broadcast(frame.nrows, snapshot_id)),
        "timestamp", "object", Broadcast(frame.nrows, timestamp)),
        "source", "object", Broadcast(frame.nrows, source)),
        "plugin", "object", Broadcast(frame.nrows, plugin))

\* AppShieldSourceStage.load_meta_cols
load_meta_cols(filepath_split, plugin, plugin_df) ==
    LET n == Len(filepath_split)
    IN  IF n < 3 THEN Raise("ValueError")
        ELSE LET source == filepath_split[n - 2]
                 snapshot == split(filepath_split[n - 1], "-")
             IN  IF Len(snapshot) < 2 THEN Raise("IndexError")
                 ELSE IF ~IsDigits(snapshot[2]) THEN Raise("ValueError")
                 ELSE LET snapshot_id == int(snapshot[2])
                          ts == ts_re(filepath_split[n])
                      IN  IF ts = None THEN Raise("ValueError")
                          ELSE OK(meta_columns(plugin_df, snapshot_id, Join(ts.group1),
                                               Join(source), plugin))

\* pd.concat(x) of frames: the columns in order of first appearance, the
\* rows of the frames one after the other (a frame without a column gives
\* NaN there).
RECURSIVE Unique(_)
Unique(s) ==
    IF s = <<>> THEN <<>>
    ELSE LET rest == Unique(SubSeq(s, 1, Len(s) - 1))
         IN  IF s[Len(s)] \in Range(rest) THEN rest ELSE Append(rest, s[Len(s)])

RECURSIVE Flatten(_)
Flatten(ss) == IF ss = <<>> THEN <<>> ELSE Head(ss) \o Flatten(Tail(ss))

concat(x) ==
    LET names == Unique(Flatten([f \in DOMAIN x |-> Columns(x[f])]))
        first(name) == x[CHOOSE f \in DOMAIN x :
                            HasColumn(x[f], name) /\ \A g \in 1..(f - 1) : ~HasColumn(x[g], name)]
    IN  [lib |-> "pandas",
         nrows |-> Len(Flatten([f \in DOMAIN x |-> [i \in 1..x[f].nrows |-> i]])),
         cols |-> [j \in DOMAIN names |->
                     [name |-> names[j],
                      dtype |-> ColumnOf(first(names[j]), names[j]).dtype,
                      data |-> Flatten([f \in DOMAIN x |->
                                  IF HasColumn(x[f], names[j])
                                  THEN ColumnOf(x[f], names[j]).data
                                  ELSE Broadcast(x[f].nrows, Null)])]]]

\* A faulty variant: the kept rows come out last first.
RECURSIVE KeptIndexes_descending(_, _)
KeptIndexes_descending(n, keep) ==
    IF n = 0 THEN <<>>
    ELSE IF n \in keep THEN <<n>> \o KeptIndexes_descending(n - 1, keep)
    ELSE KeptIndexes_descending(n - 1, keep)

\* combined_df[mask]: the rows at the kept positions, in order
RECURSIVE KeptIndexes(_, _)
KeptIndexes(n, keep) ==
    IF n = 0 THEN <<>>
    ELSE IF n \in keep THEN Append(KeptIndexes(n - 1, keep), n) ELSE KeptIndexes(n - 1, keep)

filter_rows(frame, keep) ==
    LET idx == KeptIndexes(frame.nrows, keep)
    IN  [frame EXCEPT !.nrows = Len(idx),
                      !.cols = [j \in DOMAIN frame.cols |->
                                  [frame.cols[j] EXCEPT !.data = [i \in DOMAIN idx |-> frame.cols[j].data[idx[i]]]]]]

\* A faulty variant: the single-source shortcut is taken for up to two sources.
several_sources_three(unique_sources) == Len(unique_sources) > 2

\* len(unique_sources) > 1
several_sources(unique_sources) == Len(unique_sources) > 1

\* AppShieldSourceStage.batch_source_split: the dict (a function from its
\* keys) or the exception
batch_source_split(x, source) ==
    IF x = <<>> THEN [raised |-> [type |-> "ValueError"], source_dfs |-> None]
    ELSE With(concat(x), LAMBDA combined_df :
         With(ColumnOf(combined_df, source).data, LAMBDA column :
         With(Unique(column), LAMBDA unique_sources :
             IF several_sources(unique_sources)
             THEN [raised |-> None,
                   source_dfs |-> [source_name \in Range(unique_sources) |->
                                     filter_rows(combined_df,
                                                 {i \in DOMAIN column : column[i] = source_name})]]
             ELSE IF unique_sources = <<>>
             THEN [raised |-> [type |-> "IndexError"], source_dfs |-> None]
             ELSE [raised |-> None,
                   source_dfs |-> [source_name \in {unique_sources[1]} |-> combined_df]])))

\* The body of the try of files_to_dfs for one file: what left it (an
\* exception or None), the table appended (or None), and the record of
\* load_df.
one_file(filepath, file, cols_include, cols_exclude, plugins_include, encoding) ==
    With(split(filepath, "/"), LAMBDA filepath_split :
    With(Join(split(filepath_split[Len(filepath_split)], "_")[1]), LAMBDA plugin :
    With([plugin |-> plugin, accepted |-> FALSE, load |-> None, raised |-> None, table |-> None],
         LAMBDA skipped :
        IF plugin \notin plugins_include THEN skipped
        ELSE With(load_df(file, cols_exclude, encoding), LAMBDA loaded :
             With([skipped EXCEPT !.accepted = TRUE, !.load = loaded], LAMBDA done :
                 IF loaded.raised # None THEN [done EXCEPT !.raised = loaded.raised]
                 ELSE With(load_meta_cols(filepath_split, plugin,
                                          fill_interested_cols(loaded.df, cols_include)),
                           LAMBDA meta :
                               IF meta.raised # None THEN [done EXCEPT !.raised = meta.raised]
                               ELSE [done EXCEPT !.table = meta.df]))))))

\* ------------------------------------------------ the files and configs drawn
\* "/data/hostA/snap-42/proc_2023-01-02.json"
PathExample ==
    <<"/", "d", "a", "t", "a", "/", "h", "o", "s", "t", "A", "/", "s", "n", "a", "p", "-", "4", "2", "/", "p", "r", "o", "c", "_", "2", "0", "2", "3", "-", "0", "1", "-", "0", "2", ".", "j", "s", "o", "n">>
\* "hostB/s-7/proc_1.json"
PathHostB ==
    <<"h", "o", "s", "t", "B", "/", "s", "-", "7", "/", "p", "r", "o", "c", "_", "1", ".", "j", "s", "o", "n">>
\* "hostA/s-7/net_1.json"
PathNet ==
    <<"h", "o", "s", "t", "A", "/", "s", "-", "7", "/", "n", "e", "t", "_", "1", ".", "j", "s", "o", "n">>
\* "s-7/proc_1.json"
PathShort ==
    <<"s", "-", "7", "/", "p", "r", "o", "c", "_", "1", ".", "j", "s", "o", "n">>
\* "hostA/s-7/proc_x.json"
PathNoTimestamp ==
    <<"h", "o", "s", "t", "A", "/", "s", "-", "7", "/", "p", "r", "o", "c", "_", "x", ".", "j", "s", "o", "n">>
\* "hostA/s/proc_1.json"
PathNoSnapshot ==
    <<"h", "o", "s", "t", "A", "/", "s", "/", "p", "r", "o", "c", "_", "1", ".", "j", "s", "o", "n">>
\* "latin1"
Latin1 == <<"l", "a", "t", "i", "n", "1">>
\* "UTF-8"
UTF8 == <<"U", "T", "F", "-", "8">>
\* "utf-16"
Utf16 == <<"u", "t", "f", "-", "1", "6">>
\* "cp037"
Cp037 == <<"c", "p", "0", "3", "7">>
\* "ascii"
Ascii == <<"a", "s", "c", "i", "i">>


Malformed == [malformed |-> TRUE, keys |-> {}, titles |-> <<>>, data |-> <<>>]
Object(keys, titles, data) == [malformed |-> FALSE, keys |-> keys, titles |-> titles, data |-> data]

DocTwoRows ==
    Object({"titles", "data"}, <<"PID", "Process", "SHA256">>,
           <<<<"p1", "c1", "s1">>, <<"p2", "c2", "s2">>>>)
DocOneRow == Object({"titles", "data"}, <<"Process", "PID">>, <<<<"c3", "p3">>>>)
DocNoRows == Object({"titles", "data"}, <<"PID", "Process", "SHA256">>, <<>>)
DocNoTitles == Object({"data"}, <<>>, <<<<"p4", "c4">>>>)
DocRagged == Object({"titles", "data"}, <<"PID", "Process">>, <<<<"p5", "c5", "x5">>>>)
\* Rows shorter than the titles, by the one column that is excluded by default.
DocShortRows == Object({"titles", "data"}, <<"PID", "SHA256", "Process">>, <<<<"p6", "s6">>>>)
\* Rows of unequal length, the longest as long as the titles.
DocUnevenRows == Object({"titles", "data"}, <<"PID", "Process">>, <<<<"p7", "c7">>, <<"p8">>>>)

Files ==
    {[path |-> PathExample, written_as |-> "ascii", doc |-> DocTwoRows],
     [path |-> PathHostB, written_as |-> "ascii", doc |-> DocOneRow],
     [path |-> PathExample, written_as |-> "ascii", doc |-> DocNoRows],
     [path |-> PathHostB, written_as |-> "ascii", doc |-> Malformed],
     [path |-> PathHostB, written_as |-> "utf_16", doc |-> DocOneRow],
     [path |-> PathNet, written_as |-> "ascii", doc |-> DocTwoRows],
     [path |-> PathShort, written_as |-> "ascii", doc |-> DocOneRow],
     [path |-> PathNoTimestamp, written_as |-> "ascii", doc |-> DocOneRow],
     [path |-> PathNoSnapshot, written_as |-> "ascii", doc |-> DocOneRow],
     [path |-> PathExample, written_as |-> "ascii", doc |-> DocNoTitles],
     [path |-> PathExample, written_as |-> "ascii", doc |-> DocRagged],
     [path |-> PathExample, written_as |-> "ascii", doc |-> DocShortRows],
     [path |-> PathExample, written_as |-> "ascii", doc |-> DocUnevenRows]}

RECURSIVE TuplesUpTo(_, _)
TuplesUpTo(S, n) ==
    IF n = 0 THEN {<<>>}
    ELSE LET shorter == TuplesUpTo(S, n - 1)
         IN  shorter \cup {Append(t, e) : t \in {u \in shorter : Len(u) = n - 1}, e \in S}

Batches == TuplesUpTo(Files, MaxBatch)

\* The constructor arguments drawn: the first of each list is the usual
\* one, and a stage departs from the usual in at most one argument.
PluginsArgs == <<{"proc"}, {"proc", "net"}>>
ColsIncludeArgs == <<<<"PID", "Process">>, <<"Process", "Offset", "PID">>, <<"source", "Offset", "PID">>>>
\* cols_exclude is None (not given) or a list.
ColsExcludeArgs == <<[is_none |-> TRUE, list |-> <<>>], [is_none |-> FALSE, list |-> <<"Process">>]>>
EncodingArgs == <<Latin1, UTF8, Utf16, Cp037, Ascii>>

StageArgs ==
    {a \in [plugins_include : Range(PluginsArgs), cols_include : Range(ColsIncludeArgs),
            cols_exclude : Range(ColsExcludeArgs), encoding : Range(EncodingArgs)] :
        Cardinality({k \in 1..4 :
            \/ k = 1 /\ a.plugins_include # PluginsArgs[1]
            \/ k = 2 /\ a.cols_include # ColsIncludeArgs[1]
            \/ k = 3 /\ a.cols_exclude # ColsExcludeArgs[1]
            \/ k = 4 /\ a.encoding # EncodingArgs[1]}) <= 1}

\* ------------------------------------------------------- the loop over a batch
\* The try body of files_to_dfs for each file under each stage drawn: what
\* one_file gives depends on the file and the four arguments only, so the
\* loop looks it up here.
one_file_of ==
    [a \in {<<s.cols_include, IF s.cols_exclude.is_none THEN <<"SHA256">> ELSE s.cols_exclude.list,
              s.plugins_include, s.encoding>> : s \in StageArgs} |->
        [f \in Files |-> one_file(f.path, f, a[1], a[2], a[3], a[4])]]

\* A faulty variant: the handler of files_to_dfs catches every exception.
caught_everything(exc) == exc.type = exc.type

\* except JSONDecodeError
caught(exc) == exc.type = "JSONDecodeError"

\* The for loop of files_to_dfs from file i on; acc is [plugin_dfs, log,
\* trace, raised].
RECURSIVE files_loop(_, _, _, _, _, _, _)
files_loop(x, i, acc, cols_include, cols_exclude, plugins_include, encoding) ==
    IF i > Len(x) THEN acc
    ELSE With(one_file_of[<<cols_include, cols_exclude, plugins_include, encoding>>][x[i]],
              LAMBDA r :
         With(IF r.load = None THEN acc.log ELSE acc.log \o r.load.log, LAMBDA logged :
         With([acc EXCEPT !.trace = Append(acc.trace, r), !.log = logged], LAMBDA seen :
             IF r.raised # None /\ ~caught(r.raised)
             THEN [seen EXCEPT !.raised = r.raised]
             ELSE files_loop(x, i + 1,
                             IF r.raised # None
                             THEN [seen EXCEPT !.log = Append(logged,
                                     [level |-> "error", what |-> "Unable to decode json file",
                                      filepath |-> Join(x[i].path)])]
                             ELSE IF r.table = None THEN seen
                             ELSE [seen EXCEPT !.plugin_dfs = Append(acc.plugin_dfs, r.table)],
                             cols_include, cols_exclude, plugins_include, encoding))))

\* AppShieldSourceStage.files_to_dfs: [raised, returned, plugin_dfs, split
\* (whether batch_source_split was called), log, trace]
files_to_dfs(x, cols_include, cols_exclude, plugins_include, encoding) ==
    With(files_loop(x, 1, [plugin_dfs |-> <<>>, log |-> <<>>, trace |-> <<>>, raised |-> None],
                    cols_include, cols_exclude, plugins_include, encoding),
         LAMBDA looped :
             IF looped.raised # None
             THEN [raised |-> looped.raised, returned |-> None, plugin_dfs |-> looped.plugin_dfs,
                   split |-> FALSE, log |-> looped.log, trace |-> looped.trace]
             ELSE With(batch_source_split(looped.plugin_dfs, "source"), LAMBDA df_per_source :
                       [raised |-> df_per_source.raised, returned |-> df_per_source.source_dfs,
                        plugin_dfs |-> looped.plugin_dfs, split |-> TRUE,
                        log |-> looped.log, trace |-> looped.trace]))

NoBuild ==
    /\ stage = None /\ use_cpp = FALSE /\ builder = None /\ build_pc = "config"
    /\ call = None /\ returned = None /\ raised = None

NoMessage == msg = None /\ msg_pc = "none" /\ held = FALSE

NoPrealloc == df = None /\ df_in = None /\ df_once = None /\ calls = 0 /\ NoMessage

\* AppShieldSourceStage.__init__
InitIngest ==
    /\ \E a \in StageArgs :
          /\ _plugins_include = a.plugins_include
          /\ _cols_include = a.cols_include
          /\ _cols_exclude = IF a.cols_exclude.is_none THEN <<"SHA256">> ELSE a.cols_exclude.list
          /\ _encoding = a.encoding
    /\ batch = None
    /\ out = None
    /\ needed_columns = <<>>
    /\ NoBuild
    /\ NoPrealloc

\* The "-post" node maps files_to_dfs over one batch of file names.
FilesToDfs ==
    /\ out = None
    /\ \E x \in Batches :
          /\ batch' = x
          /\ out' = files_to_dfs(x, _cols_include, _cols_exclude, _plugins_include, _encoding)
    /\ UNCHANGED <<needed_columns, preVars, buildVars, configVars>>

NextIngest == FilesToDfs

SpecIngest == InitIngest /\ [][NextIngest]_vars

\* PreallocatorMixin.set_needed_columns: called by the pipeline at build
\* time, before any frame is processed.
set_needed_columns ==
    /\ calls = 0
    /\ msg_pc \in {"none", "multi", "meta"}
    /\ needed_columns = <<>>
    /\ build_pc = "config"
    /\ \E S \in ColumnSpecs \ {<<>>} : needed_columns' = S
    /\ UNCHANGED <<preVars, buildVars, ingestVars>>

\* ================================================================ graph build
\* A class is [module, name, base]; base is the name of its base class ("" for
\* none).  These are the output types of the stages of the repository and a
\* few types the mixin does not support.
MessageMeta == [module |-> "morpheus.messages", name |-> "MessageMeta", base |-> ""]
AppShieldMessageMeta ==
    [module |-> "morpheus.messages.message_meta", name |-> "AppShieldMessageMeta", base |-> "MessageMeta"]
MultiMessage == [module |-> "morpheus.messages", name |-> "MultiMessage", base |-> ""]
MultiResponseMessage ==
    [module |-> "morpheus.messages", name |-> "MultiResponseMessage", base |-> "MultiMessage"]
CudfDataFrame == [module |-> "cudf", name |-> "DataFrame", base |-> ""]
PandasDataFrame == [module |-> "pandas", name |-> "DataFrame", base |-> ""]
ControlMessage == [module |-> "morpheus.messages", name |-> "ControlMessage", base |-> ""]
PyStr == [module |-> "builtins", name |-> "str", base |-> ""]
PyDict == [module |-> "builtins", name |-> "dict", base |-> ""]

Classes ==
    {MessageMeta, AppShieldMessageMeta, MultiMessage, MultiResponseMessage,
     CudfDataFrame, PandasDataFrame, ControlMessage, PyStr, PyDict}

ClassNamed(name) == CHOOSE c \in Classes : c.name = name /\ c.module # "pandas"

\* issubclass(cls, parent)
RECURSIVE issubclass(_, _)
issubclass(cls, parent) ==
    \/ cls = parent
    \/ cls.base # "" /\ issubclass(ClassNamed(cls.base), parent)

\* morpheus.utils.type_utils.pretty_print_type_name: the class' __name__
pretty_print_type_name(t) == t.name

\* builder.make_node(name, ...): the node is added to the segment
make_node(b, node) == [b EXCEPT !.nodes = Append(b.nodes, node)]

\* builder.make_edge(source, sink)
make_edge(b, source, sink) == [b EXCEPT !.edges = Append(b.edges, <<source.name, sink.name>>)]

\* A faulty variant: no output type is refused; what is neither a message nor a frame
\* is handled like a frame.
preallocate_node_any(st, cpp) ==
    [kind |-> "node",
     node |-> [name |-> st.unique_name \o "-preallocate", impl |-> "python", fn |-> "_preallocate_df"]]

\* Lines 93-114 of PreallocatorMixin._post_build_single: the node chosen for
\* the stage's output type, or the RuntimeError.
preallocate_node(st, cpp) ==
    LET out_type == st.out_type
        pretty_type == pretty_print_type_name(out_type)
        node_name == st.unique_name \o "-preallocate"
    IN  IF issubclass(out_type, MessageMeta) \/ issubclass(out_type, MultiMessage)
        THEN IF cpp
             THEN IF issubclass(out_type, MessageMeta)
                  THEN [kind |-> "node",
                        node |-> [name |-> node_name, impl |-> "cpp", fn |-> "PreallocateMessageMetaStage"]]
                  ELSE [kind |-> "node",
                        node |-> [name |-> node_name, impl |-> "cpp", fn |-> "PreallocateMultiMessageStage"]]
             ELSE IF issubclass(out_type, MessageMeta)
                  THEN [kind |-> "node",
                        node |-> [name |-> node_name, impl |-> "python", fn |-> "_preallocate_meta"]]
                  ELSE [kind |-> "node",
                        node |-> [name |-> node_name, impl |-> "python", fn |-> "_preallocate_multi"]]
        ELSE IF issubclass(out_type, CudfDataFrame) \/ issubclass(out_type, PandasDataFrame)
        THEN [kind |-> "node",
              node |-> [name |-> node_name, impl |-> "python", fn |-> "_preallocate_df"]]
        ELSE [kind |-> "raise",
              exc |-> [type |-> "RuntimeError",
                       msg |-> "Additional columns were requested to be inserted into the Dataframe, but the output type "
                               \o pretty_type \o " isn't a supported type"]]

\* A faulty variant: the guard of line 92 lets the empty mapping through.
wants_preallocation_always(S) == Len(S) >= 0

\* len(self._needed_columns) > 0
wants_preallocation(S) == Len(S) > 0

\* PreallocatorMixin._post_build_single(builder, out_node): the builder as it
\* is left, and the node returned or the exception raised.
Mixin_post_build_single(st, S, cpp, b, out_node) ==
    IF wants_preallocation(S)
    THEN LET made == preallocate_node(st, cpp)
         IN  IF made.kind = "raise"
             THEN [builder |-> b, returned |-> None, raised |-> made.exc]
             ELSE [builder |-> make_edge(make_node(b, made.node), out_node, made.node),
                   returned |-> made.node, raised |-> None]
    ELSE [builder |-> b, returned |-> out_node, raised |-> None]


Stages ==
    {[cls |-> "AppShieldSourceStage", unique_name |-> "from-appshield-0", out_type |-> AppShieldMessageMeta]}
    \cup {[cls |-> "PreallocatorMixin", unique_name |-> "stage-1", out_type |-> t] : t \in Classes}

NoIngest ==
    /\ _plugins_include = None /\ _cols_include = None /\ _cols_exclude = None
    /\ _encoding = None /\ batch = None /\ out = None

InitBuild ==
    /\ NoIngest
    /\ needed_columns = <<>>
    /\ stage \in Stages
    /\ use_cpp \in BOOLEAN
    /\ builder = [nodes |-> <<>>, edges |-> <<>>]
    /\ build_pc = "config"
    /\ call = None
    /\ returned = None
    /\ raised = None
    /\ NoPrealloc

\* The stage's own node is built: AppShieldSourceStage._build_source returns
\* the watcher's node; another stage makes its node under its unique name.
build_source ==
    /\ build_pc = "config"
    /\ builder' = make_node(builder,
                      [name |-> stage.unique_name,
                       impl |-> "python",
                       fn |-> IF stage.cls = "AppShieldSourceStage" THEN "DirectoryWatcher" ELSE "stage"])
    /\ build_pc' = "built"
    /\ UNCHANGED <<needed_columns, preVars, ingestVars, stage, use_cpp, call, returned, raised>>

\* What both post-build actions do with the mixin's result.
MixinCalled(b, out_node) ==
    LET r == Mixin_post_build_single(stage, needed_columns, use_cpp, b, out_node)
    IN  /\ call' = [builder |-> b, out_node |-> out_node]
        /\ builder' = r.builder
        /\ returned' = r.returned
        /\ raised' = r.raised
        /\ build_pc' = IF r.raised = None THEN "done" ELSE "failed"

\* A stage that inherits _post_build_single from the mixin.
post_build_single ==
    /\ build_pc = "built"
    /\ stage.cls = "PreallocatorMixin"
    /\ MixinCalled(builder, builder.nodes[Len(builder.nodes)])
    /\ UNCHANGED <<needed_columns, preVars, ingestVars, stage, use_cpp>>

\* AppShieldSourceStage._post_build_single: the "-post" node and its edge are
\* made, then the mixin's method is called on the "-post" node.
appshield_post_build_single ==
    /\ build_pc = "built"
    /\ stage.cls = "AppShieldSourceStage"
    /\ LET out_node == builder.nodes[Len(builder.nodes)]
           post_node == [name |-> stage.unique_name \o "-post", impl |-> "python", fn |-> "files_to_dfs"]
       IN  MixinCalled(make_edge(make_node(builder, post_node), out_node, post_node), post_node)
    /\ UNCHANGED <<needed_columns, preVars, ingestVars, stage, use_cpp>>

NextBuild == set_needed_columns \/ build_source \/ post_build_single \/ appshield_post_build_single

SpecBuild == InitBuild /\ [][NextBuild]_vars

\* ======================================================= preallocation node
InitPrealloc ==
    /\ NoIngest
    /\ needed_columns = <<>>
    /\ stage = None /\ use_cpp = FALSE /\ builder = None /\ build_pc = "config"
    /\ call = None /\ returned = None /\ raised = None
    /\ df \in Frames
    /\ df_in = df
    /\ df_once = df
    /\ calls = 0
    /\ NoMessage

\* One application of _preallocate_df to the frame (the node's map function).
PreallocateDf ==
    /\ calls < MaxCalls
    /\ msg = None
    /\ df' = _preallocate_df(needed_columns, df)
    /\ df_once' = IF calls = 0 THEN df' ELSE df_once
    /\ calls' = calls + 1
    /\ UNCHANGED <<needed_columns, df_in, msg, msg_pc, held, buildVars, ingestVars>>

NextPrealloc == set_needed_columns \/ PreallocateDf

SpecPrealloc == InitPrealloc /\ [][NextPrealloc]_vars

\* ============================================ preallocation of a message
\* MessageMeta.mutable_dataframe(): a context manager that takes exclusive
\* mutable access to the frame the message holds when entered and gives it up
\* when exited.
acquire(h) == TRUE
release(h) == FALSE

\* A faulty variant: the access is given up only when the body ended
\* normally.
with_exit_on_success(outcome, h) == IF outcome = "filled" THEN release(h) ELSE h

\* The with statement of _preallocate_meta is left: the context manager is
\* exited however the body ended.
with_exit(outcome, h) == release(h)

Messages == {[cls |-> "MessageMeta"], [cls |-> "MultiMessage"]}

\* A message arrives at the preallocation node of a stage whose output is a
\* MessageMeta (_preallocate_meta) or a MultiMessage (_preallocate_multi).
InitMeta ==
    /\ NoIngest
    /\ NoBuild
    /\ needed_columns = <<>>
    /\ df \in Frames
    /\ df_in = df
    /\ df_once = df
    /\ calls = 0
    /\ msg \in Messages
    /\ msg_pc = IF msg.cls = "MultiMessage" THEN "multi" ELSE "meta"
    /\ held = FALSE

\* _preallocate_multi calls _preallocate_meta on msg.meta.
_preallocate_multi ==
    /\ msg_pc = "multi"
    /\ msg_pc' = "meta"
    /\ UNCHANGED <<needed_columns, df, df_in, df_once, calls, msg, held, buildVars, ingestVars>>

\* with msg.mutable_dataframe() as df: the context manager is entered.
with_enter ==
    /\ msg_pc = "meta"
    /\ held' = acquire(held)
    /\ msg_pc' = "with"
    /\ UNCHANGED <<needed_columns, df, df_in, df_once, calls, msg, buildVars, ingestVars>>

\* self._preallocate_df(df) inside the with: it fills every missing column,
\* or an assignment fails after k of them were filled.
with_body ==
    /\ msg_pc = "with"
    /\ \E k \in 0..Len(missing_columns(needed_columns, df)) :
          IF k = Len(missing_columns(needed_columns, df))
          THEN /\ df' = _preallocate_df(needed_columns, df)
               /\ msg_pc' = "filled"
          ELSE /\ df' = PreallocateAll(needed_columns, df,
                                       SubSeq(missing_columns(needed_columns, df), 1, k))
               /\ msg_pc' = "failing"
    /\ df_once' = df'
    /\ calls' = calls + 1
    /\ UNCHANGED <<needed_columns, df_in, msg, held, buildVars, ingestVars>>

\* The with statement is left; _preallocate_meta (and with it
\* _preallocate_multi) returns the message or lets the exception through.
with_leave ==
    /\ msg_pc \in {"filled", "failing"}
    /\ held' = with_exit(msg_pc, held)
    /\ msg_pc' = IF msg_pc = "filled" THEN "returned" ELSE "raised"
    /\ UNCHANGED <<needed_columns, df, df_in, df_once, calls, msg, buildVars, ingestVars>>

NextMeta == set_needed_columns \/ _preallocate_multi \/ with_enter \/ with_body \/ with_leave

SpecMeta == InitMeta /\ [][NextMeta]_vars

\* ----------------------------------------------------------------- claims
\* The dtype a column of the declared TypeId has.
DeclaredDtype(column_type) ==
    CASE column_type = "INT64" -> "int64"
      [] column_type = "FLOAT32" -> "float32"
      [] column_type = "STRING" -> "object"

FillValue(column_type) == IF column_type = "STRING" THEN "" ELSE 0

\* Every column of frame f stands unchanged, at the same position, in frame g.
ColumnsKept(f, g) ==
    /\ g.lib = f.lib
    /\ g.nrows = f.nrows
    /\ Len(g.cols) >= Len(f.cols)
    /\ \A i \in DOMAIN f.cols : g.cols[i] = f.cols[i]

\* C1: applying _preallocate_df a second (or further) time with the same
\* needed columns leaves the frame exactly as the first application left it:
\* same columns, same column order, same dtypes and values.
C1_Idempotent == calls >= 2 => df = df_once

\* C1 witness: two applications were made and the first one added columns to
\* a frame that already had some.
C1_Witness ==
    /\ calls = 2
    /\ df_once # df_in
    /\ df_in.cols # <<>>

\* C2 as stated: after _preallocate_df every needed column exists with the
\* declared type, and no column of the arriving frame is altered.
C2_Original ==
    calls >= 1 =>
        /\ \A i \in DOMAIN needed_columns :
              /\ HasColumn(df, needed_columns[i][1])
              /\ ColumnOf(df, needed_columns[i][1]).dtype = DeclaredDtype(needed_columns[i][2])
        /\ ColumnsKept(df_in, df)

\* C2 amended: after _preallocate_df every needed column exists; a needed
\* column the arriving frame lacked has the declared type and is filled with
\* zero (numeric) or the empty string (STRING) in every row; no column of the
\* arriving frame is altered in name, position, type or values, so a needed
\* column that arrived with another type keeps the type it arrived with.
C2_Completeness ==
    calls >= 1 =>
        /\ \A i \in DOMAIN needed_columns :
              LET name == needed_columns[i][1]
                  type == needed_columns[i][2]
              IN  /\ HasColumn(df, name)
                  /\ Cardinality({j \in DOMAIN df.cols : df.cols[j].name = name}) = 1
                  /\ ~HasColumn(df_in, name) =>
                        /\ ColumnOf(df, name).dtype = DeclaredDtype(type)
                        /\ ColumnOf(df, name).data = [r \in 1..df_in.nrows |-> FillValue(type)]
        /\ ColumnsKept(df_in, df)
        /\ Len(df.cols) = Len(df_in.cols)
               + Cardinality({i \in DOMAIN needed_columns : ~HasColumn(df_in, needed_columns[i][1])})

\* C2 witness: a frame with rows arrived holding one needed column under
\* another type than declared and lacking another needed column, and the
\* completion ran.
C2_Witness ==
    /\ calls = 1
    /\ df_in.nrows > 0
    /\ \E i, j \in DOMAIN needed_columns :
          /\ HasColumn(df_in, needed_columns[i][1])
          /\ ColumnOf(df_in, needed_columns[i][1]).dtype # DeclaredDtype(needed_columns[i][2])
          /\ ~HasColumn(df_in, needed_columns[j][1])

\* The output types the mixin completes: MessageMeta, MultiMessage,
\* cudf.DataFrame, pandas.DataFrame and their subclasses.
SupportedOutput(t) ==
    \E c \in {MessageMeta, MultiMessage, CudfDataFrame, PandasDataFrame} : issubclass(t, c)

\* C5: with needed columns and an output type that is none of the supported
\* ones, PreallocatorMixin._post_build_single raises a RuntimeError whose
\* message names the type, having created no node and no edge; and with
\* needed columns it never returns normally without having inserted the
\* completion node and its edge.
C5_UnknownShapeRejected ==
    call # None =>
        /\ (needed_columns # <<>> /\ ~SupportedOutput(stage.out_type)) =>
              /\ build_pc = "failed"
              /\ returned = None
              /\ raised # None
              /\ raised.type = "RuntimeError"
              /\ raised.msg = "Additional columns were requested to be inserted into the Dataframe, but the output type "
                              \o stage.out_type.name \o " isn't a supported type"
              /\ builder = call.builder
        /\ (needed_columns # <<>> /\ raised = None) =>
              /\ Len(builder.nodes) = Len(call.builder.nodes) + 1
              /\ Len(builder.edges) = Len(call.builder.edges) + 1
              /\ returned = builder.nodes[Len(builder.nodes)]

\* C5 witness: a stage whose output type is dict was built with needed
\* columns set, and the build failed.
C5_Witness ==
    /\ build_pc = "failed"
    /\ stage.out_type = PyDict
    /\ needed_columns # <<>>

\* C8: with no needed columns PreallocatorMixin._post_build_single leaves the
\* builder as it found it and returns the out_node it was given (for the
\* AppShield source: its "-post" node); with needed columns and a supported
\* output type it creates exactly one node, named <unique_name>-preallocate,
\* adds exactly one edge, from the given out_node to that node, and returns
\* that node.
C8_EmptySpecNoOp ==
    call # None =>
        /\ needed_columns = <<>> =>
              /\ build_pc = "done"
              /\ builder = call.builder
              /\ returned = call.out_node
              /\ stage.cls = "AppShieldSourceStage" =>
                    /\ returned.name = stage.unique_name \o "-post"
                    /\ builder.edges = <<<<stage.unique_name, returned.name>>>>
        /\ (needed_columns # <<>> /\ SupportedOutput(stage.out_type)) =>
              /\ build_pc = "done"
              /\ \E node \in Range(builder.nodes) :
                    /\ node.name = stage.unique_name \o "-preallocate"
                    /\ builder.nodes = Append(call.builder.nodes, node)
                    /\ builder.edges = Append(call.builder.edges, <<call.out_node.name, node.name>>)
                    /\ returned = node

\* C8 witness: the AppShield source was built with no needed columns and its
\* "-post" node came back as the output node.
C8_Witness ==
    /\ build_pc = "done"
    /\ needed_columns = <<>>
    /\ stage.cls = "AppShieldSourceStage"
    /\ returned.name = "from-appshield-0-post"

\* -------------------------------------------------------- ingestion claims
MetaNames == <<"snapshot_id", "timestamp", "source", "plugin">>

Count(rows, r) == Cardinality({i \in DOMAIN rows : rows[i] = r})

\* The rows of the tables handed to batch_source_split, table after table.
InputRows == Flatten([t \in DOMAIN out.plugin_dfs |-> Rows(out.plugin_dfs[t])])

\* The cell of a row of frame f under the column called name.
Cell(f, row, name) == row[CHOOSE j \in DOMAIN f.cols : f.cols[j].name = name]

SplitCalled == out # None /\ out.split

\* C3: whenever batch_source_split returns, every row of the tables it was
\* given occurs in the partition keyed by the row's source as often as in
\* the input and in no other partition, every row of the partition keyed k
\* has source = k, and the partitions hold no other rows; it raises only
\* when the tables hold no row at all, so that no row is ever lost.
C3_NoDataLoss ==
    SplitCalled =>
        IF out.raised = None
        THEN /\ \A k \in DOMAIN out.returned :
                  \A r \in Range(Rows(out.returned[k])) :
                      /\ Cell(out.returned[k], r, "source") = k
                      /\ Count(Rows(out.returned[k]), r) = Count(InputRows, r)
             /\ \A t \in DOMAIN out.plugin_dfs :
                  \A r \in Range(Rows(out.plugin_dfs[t])) :
                      /\ Cell(out.plugin_dfs[t], r, "source") \in DOMAIN out.returned
                      /\ Count(Rows(out.returned[Cell(out.plugin_dfs[t], r, "source")]), r)
                            = Count(InputRows, r)
        ELSE InputRows = <<>>

\* C3 witness: three tables from two sources were split into two
\* partitions.
C3_Witness ==
    /\ SplitCalled
    /\ out.raised = None
    /\ Len(out.plugin_dfs) = 3
    /\ Cardinality(DOMAIN out.returned) = 2
    /\ Len(InputRows) >= 4

\* A file of the batch that was opened and could not be decoded as JSON.
InvalidJson(i) ==
    /\ out.trace[i].raised # None
    /\ out.trace[i].raised.type = "JSONDecodeError"

Accepted(i) == out.trace[i].table # None

\* C4 as stated: in a batch of files with invalid JSON and of valid,
\* accepted files, at least one of each, files_to_dfs logs an error for
\* each invalid file, does not raise and returns partitions holding exactly
\* the records of the valid files.
C4_BadFileIsolated ==
    (/\ out # None
     /\ Len(out.trace) = Len(batch)
     /\ \A i \in DOMAIN batch : InvalidJson(i) \/ Accepted(i)
     /\ \E i \in DOMAIN batch : InvalidJson(i)
     /\ \E i \in DOMAIN batch : Accepted(i)) =>
        /\ out.raised = None
        /\ \A i \in DOMAIN batch :
              InvalidJson(i) =>
                  [level |-> "error", what |-> "Unable to decode json file",
                   filepath |-> Join(batch[i].path)] \in Range(out.log)
        /\ out.plugin_dfs =
              [n \in 1..Cardinality({i \in DOMAIN batch : Accepted(i)}) |->
                  out.trace[CHOOSE i \in DOMAIN batch :
                                /\ Accepted(i)
                                /\ Cardinality({m \in 1..i : Accepted(m)}) = n].table]
        /\ \A r \in Range(InputRows) :
              \E k \in DOMAIN out.returned :
                  Count(Rows(out.returned[k]), r) = Count(InputRows, r)

\* The loads load_df made for the batch.
Loads == {i \in DOMAIN out.trace : out.trace[i].load # None}

DecodeFailed(l) ==
    l.first.raised # None /\ l.first.raised.type \in {"JSONDecodeError", "UnicodeDecodeError"}

UtfNames == {"UTF-8", "utf-16"}

Tables == {i \in DOMAIN out.trace : out.trace[i].table # None}

AllNull(column) == \A i \in DOMAIN column.data : column.data[i] = Null

\* C7 as stated: every table appended has exactly the columns cols_include
\* followed by snapshot_id, timestamp, source, plugin, and an include-list
\* column the file lacks is all null.
C7_Original ==
    out # None =>
        \A i \in Tables :
            Columns(out.trace[i].table) = _cols_include \o MetaNames

\* C7 amended: every table appended has exactly the columns cols_include, in
\* that order, followed by those of snapshot_id, timestamp, source, plugin
\* that cols_include does not name, in that order; a metadata name listed in
\* cols_include keeps its include-list position and is not appended again.
\* Every metadata column holds the value derived for the file in every row,
\* and every other include-list column that the file's titles lack is all
\* null.  (cols_include and the titles hold no name twice.)
C7_NormalizedColumns ==
    out # None =>
        \A i \in Tables :
            LET table == out.trace[i].table
            IN  /\ Columns(table) =
                      _cols_include \o SelectSeq(MetaNames, LAMBDA m : m \notin Range(_cols_include))
                /\ \A j \in DOMAIN table.cols : Len(table.cols[j].data) = table.nrows
                /\ table.nrows = Len(batch[i].doc.data)
                /\ \A j \in DOMAIN _cols_include :
                      (/\ _cols_include[j] \notin Range(batch[i].doc.titles)
                       /\ _cols_include[j] \notin Range(MetaNames)) => AllNull(table.cols[j])
                /\ \A r \in 1..table.nrows :
                      /\ ColumnOf(table, "plugin").data[r] = out.trace[i].plugin
                      /\ ColumnOf(table, "source").data[r] \in {"hostA", "hostB"}
                      /\ ColumnOf(table, "snapshot_id").data[r] \in {7, 42}
                      /\ ColumnOf(table, "timestamp").data[r] \in {"1", "2023-01-02"}

\* C7 witness: with "source" and a column no file has in cols_include, a
\* file with rows was accepted.
C7_Witness ==
    /\ out # None
    /\ "source" \in Range(_cols_include)
    /\ "Offset" \in Range(_cols_include)
    /\ \E i \in Tables : out.trace[i].table.nrows > 0

\* A file that yields no table without that being an error: its plugin is
\* not recognized, or its JSON is malformed.
Skipped(i) == ~out.trace[i].accepted \/ InvalidJson(i)

\* C9 as stated: a batch in which no file yields a table (an empty batch, or
\* every file skipped) makes files_to_dfs return, without raising, a result
\* of zero tables.
C9_ZeroOutputBatch ==
    (/\ out # None
     /\ Len(out.trace) = Len(batch)
     /\ \A i \in DOMAIN batch : Skipped(i)) =>
        /\ out.raised = None
        /\ DOMAIN out.returned = {}

\* The values of the grouping column over the tables handed to
\* batch_source_split.
SourceValues ==
    UNION {Range(ColumnOf(out.plugin_dfs[t], "source").data) : t \in DOMAIN out.plugin_dfs}

\* C10 as stated: for a non-empty list of tables batch_source_split returns,
\* without raising, at least one partition; the keys are the distinct
\* values of the grouping column; a single distinct value gives a single
\* partition with all the rows.
C10_PartitionExists ==
    (SplitCalled /\ out.plugin_dfs # <<>>) =>
        /\ out.raised = None
        /\ DOMAIN out.returned # {}
        /\ DOMAIN out.returned = SourceValues
        /\ Cardinality(SourceValues) = 1 =>
              \A k \in DOMAIN out.returned : Rows(out.returned[k]) = InputRows

\* ------------------------------------------------- structural path failures
\* The paths of the model with fewer than 3 segments, or with a last segment
\* the timestamp pattern does not match.
BadPath(file) == file.path \in {PathShort, PathNoTimestamp}

JsonErrorLogged(file) ==
    [level |-> "error", what |-> "Unable to decode json file", filepath |-> Join(file.path)]
        \in Range(out.log)

ExpectedMeta(path) ==
    CASE path = PathExample ->
           [source |-> "hostA", snapshot_id |-> 42, timestamp |-> "2023-01-02", plugin |-> "proc"]
      [] path = PathHostB ->
           [source |-> "hostB", snapshot_id |-> 7, timestamp |-> "1", plugin |-> "proc"]
      [] path = PathNet ->
           [source |-> "hostA", snapshot_id |-> 7, timestamp |-> "1", plugin |-> "net"]

\* C12: every table appended to the batch carries, in every row, the source
\* named by the third-from-last segment of its file's path, the snapshot_id
\* that is the integer after the '-' of the second-from-last segment, the
\* timestamp captured from the last segment before ".json" and the plugin;
\* for /data/hostA/snap-42/proc_2023-01-02.json these are "hostA", 42,
\* "2023-01-02" and "proc".
C12_MetadataDerivation ==
    out # None =>
        \A i \in Tables :
            LET table == out.trace[i].table
            IN  /\ batch[i].path \in {PathExample, PathHostB, PathNet}
                /\ \A name \in Range(MetaNames) :
                      /\ HasColumn(table, name)
                      /\ Len(ColumnOf(table, name).data) = table.nrows
                /\ table.nrows = Len(batch[i].doc.data)
                /\ \A r \in 1..table.nrows :
                      /\ ColumnOf(table, "source").data[r] = ExpectedMeta(batch[i].path).source
                      /\ ColumnOf(table, "snapshot_id").data[r] = ExpectedMeta(batch[i].path).snapshot_id
                      /\ ColumnOf(table, "timestamp").data[r] = ExpectedMeta(batch[i].path).timestamp
                      /\ ColumnOf(table, "plugin").data[r] = ExpectedMeta(batch[i].path).plugin

\* C12 witness: the file /data/hostA/snap-42/proc_2023-01-02.json with two
\* rows was accepted, and a file of plugin "net" as well.
C12_Witness ==
    /\ out # None
    /\ \E i \in Tables : batch[i].path = PathExample /\ out.trace[i].table.nrows = 2
    /\ \E i \in Tables : batch[i].path = PathNet /\ out.trace[i].table.nrows = 2

\* ------------------------------------------------------------ corrupt files
\* A file that was opened and whose content did not give a record set:
\* load_df ended with an exception, of whatever kind.
Corrupt(i) == out.trace[i].load # None /\ out.trace[i].load.raised # None

\* C13 as stated: a file whose content cannot be decoded into a record set
\* (also after the utf-8 retry, and also for want of the titles or data key)
\* is excluded, every later file of the batch is still processed, and the
\* failure does not leave files_to_dfs: the loop runs to the end of the
\* batch and the tables of the other files go on to batch_source_split.
C13_CorruptFileSkipped ==
    out # None =>
        \A i \in DOMAIN out.trace :
            Corrupt(i) =>
                /\ out.trace[i].table = None
                /\ Len(out.trace) = Len(batch)
                /\ out.split
                /\ Len(out.plugin_dfs) = Cardinality({m \in DOMAIN batch : Accepted(m)})

\* ------------------------------------------------------ scoped frame access
\* C14: in _preallocate_meta, and in _preallocate_multi through it, mutable
\* access to the frame is not held before the with statement is entered, is
\* held from then on while the fill runs, whether it succeeds or fails, and
\* is no longer held once the step has returned or raised; and the frame is
\* as it arrived for as long as the access has not been taken.
C14_ScopedAccess ==
    msg # None =>
        /\ msg_pc \in {"multi", "meta"} => (~held /\ df = df_in)
        /\ msg_pc \in {"with", "filled", "failing"} => held
        /\ msg_pc \in {"returned", "raised"} => ~held

\* C14 witness: for a MultiMessage the fill failed after it had added a
\* column, and the step raised.
C14_Witness ==
    /\ msg = [cls |-> "MultiMessage"]
    /\ msg_pc = "raised"
    /\ df # df_in

\* ---------------------------------------------------------- stable ordering
\* The n-th file of the batch for which a table was appended.
NthAccepted(n) ==
    CHOOSE i \in DOMAIN batch : Accepted(i) /\ Cardinality({m \in 1..i : Accepted(m)}) = n

\* C15: files_to_dfs goes through the files in the order of the batch (the
\* n-th table handed to batch_source_split is the table of the n-th accepted
\* file, and the files were looked at first to last), and the rows of every
\* partition returned are the rows of these tables that have the partition's
\* source, in file order and, within a file, in row order; with one source
\* as with several.
C15_StableOrdering ==
    out # None =>
        /\ \A i \in DOMAIN out.trace :
              out.trace[i].plugin = IF batch[i].path = PathNet THEN "net" ELSE "proc"
        /\ \A n \in DOMAIN out.plugin_dfs : out.plugin_dfs[n] = out.trace[NthAccepted(n)].table
        /\ (out.split /\ out.raised = None) =>
              \A k \in DOMAIN out.returned :
                  Rows(out.returned[k]) =
                      SelectSeq(InputRows, LAMBDA r : Cell(out.plugin_dfs[1], r, "source") = k)

\* C15 witness: tables of hostA, hostB and hostA again, in this order, were
\* split, and the partition of hostA holds the four rows of its two files.
C15_Witness ==
    /\ SplitCalled
    /\ out.raised = None
    /\ Len(out.plugin_dfs) = 3
    /\ batch[1].path = PathExample
    /\ batch[2].path = PathHostB
    /\ batch[3].path = PathNet
    /\ Len(Rows(out.returned["hostA"])) = 4
    /\ Len(Rows(out.returned["hostB"])) = 1

\* ---------------------------------------------------------------- row arity
\* Every row of the document has as many values as there are titles.
ArityKept(doc) == \A r \in DOMAIN doc.data : Len(doc.data[r]) = Len(doc.titles)

TitleIndex(doc, name) == CHOOSE j \in DOMAIN doc.titles : doc.titles[j] = name

\* What C16 asks of one read_file_to_df (read) of a document that was
\* decoded and has its titles and data: rows of another arity than the titles
\* are an error; otherwise the frame has the titles that are not excluded, in
\* their order, each with the values that stand at its title's position.
ArityEnforced(doc, read) ==
    IF ~ArityKept(doc)
    THEN read.raised # None
    ELSE /\ read.raised = None
         /\ Columns(read.df) = SelectSeq(doc.titles, LAMBDA t : t \notin Range(_cols_exclude))
         /\ read.df.nrows = Len(doc.data)
         /\ \A j \in DOMAIN read.df.cols :
               read.df.cols[j].data =
                   [r \in DOMAIN doc.data |-> doc.data[r][TitleIndex(doc, read.df.cols[j].name)]]

Decoded(read) ==
    read.raised = None \/ read.raised.type \notin {"JSONDecodeError", "UnicodeDecodeError"}

\* C16 as stated: read_file_to_df fails for every document whose rows do not
\* all have the arity of the titles, and otherwise returns the columns that
\* are not excluded with their values aligned to their titles (through the
\* fallback over the full titles when a titled column is excluded).
C16_RowArityEnforced ==
    out # None =>
        \A i \in Loads :
            LET l == out.trace[i].load
                doc == batch[i].doc
            IN  {"titles", "data"} \subseteq doc.keys =>
                    /\ Decoded(l.first) => ArityEnforced(doc, l.first)
                    /\ (l.second # None /\ Decoded(l.second)) => ArityEnforced(doc, l.second)

=============================================================================
